---------------------------- MODULE Spec2Model ----------------------------
(***************************************************************************)
(* Model of src/app.py: a Flask relay that resolves a video URL to a       *)
(* direct stream URL with yt-dlp and caches the resolution per video id.   *)
(*                                                                         *)
(* Python strings that the code inspects (URLs, codecs, containers,        *)
(* protocols) are sequences of one-character strings, so that the regular  *)
(* expression, lower(), startswith(), "in" and the query-string parser are *)
(* computed character by character.  The empty sequence << >> stands for   *)
(* every falsy empty Python value ("", {}, [] and None): the code only     *)
(* ever tests such values for truthiness.                                  *)
(***************************************************************************)
EXTENDS Integers, Sequences, FiniteSets, TLC

VARIABLES
    CACHE,      \* app.py:21   dict video_id -> payload (shared by all requests)
    clock,      \* time.time() truncated to seconds
    req,        \* per worker thread: the locals of its current resolve() call
    served,     \* number of requests accepted so far (bounds the run)
    pf,         \* harness of pick_format: its input and its result
    ex,         \* harness of the expiry computation of extract_stream
    idx         \* harness of extract_video_id: its input and its result

vars == <<CACHE, clock, req, served, pf, ex, idx>>

None == << >>

-----------------------------------------------------------------------------
(* Strings *)

UpperChars ==
    {"A","B","C","D","E","F","G","H","I","J","K","L","M",
     "N","O","P","Q","R","S","T","U","V","W","X","Y","Z"}

LowerChars ==
    {"a","b","c","d","e","f","g","h","i","j","k","l","m",
     "n","o","p","q","r","s","t","u","v","w","x","y","z"}

DigitChars == {"0","1","2","3","4","5","6","7","8","9"}

\* str.lower() on one character
LowerChar(c) ==
    CASE c = "A" -> "a" [] c = "B" -> "b" [] c = "C" -> "c" [] c = "D" -> "d"
      [] c = "E" -> "e" [] c = "F" -> "f" [] c = "G" -> "g" [] c = "H" -> "h"
      [] c = "I" -> "i" [] c = "J" -> "j" [] c = "K" -> "k" [] c = "L" -> "l"
      [] c = "M" -> "m" [] c = "N" -> "n" [] c = "O" -> "o" [] c = "P" -> "p"
      [] c = "Q" -> "q" [] c = "R" -> "r" [] c = "S" -> "s" [] c = "T" -> "t"
      [] c = "U" -> "u" [] c = "V" -> "v" [] c = "W" -> "w" [] c = "X" -> "x"
      [] c = "Y" -> "y" [] c = "Z" -> "z" [] OTHER -> c

\* str.lower()
Lower(s) == [i \in 1..Len(s) |-> LowerChar(s[i])]

\* str.startswith(p)
StartsWith(s, p) == Len(s) >= Len(p) /\ SubSeq(s, 1, Len(p)) = p

\* p in s
Contains(s, p) ==
    \E i \in 1..(Len(s) - Len(p) + 1) : SubSeq(s, i, i + Len(p) - 1) = p

\* the first index of character c in s, 0 when there is none (str.find + 1)
Find(s, c) ==
    IF \E i \in 1..Len(s) : s[i] = c
    THEN CHOOSE i \in 1..Len(s) : s[i] = c /\ \A j \in 1..(i - 1) : s[j] # c
    ELSE 0

\* bool(d.get(k)) for a string- or list-valued key: absent, None and empty are
\* falsy
Truthy(d, k) == k \in DOMAIN d /\ d[k] # None

\* d.get(k) or dflt, for a string- or list-valued key
GetOr(d, k, dflt) == IF Truthy(d, k) THEN d[k] ELSE dflt

\* d.get(k) or dflt, for a number-valued key: absent and 0 are falsy
GetIntOr(d, k, dflt) == IF k \in DOMAIN d /\ d[k] # 0 THEN d[k] ELSE dflt

Min(a, b) == IF a <= b THEN a ELSE b

-----------------------------------------------------------------------------
(* pick_format, app.py:55-95 *)

s_none == <<"n","o","n","e">>
s_http == <<"h","t","t","p">>
s_mp4  == <<"m","p","4">>
s_avc  == <<"a","v","c">>
s_h264 == <<"h","2","6","4">>

\* app.py:66-70: the normalised fields of one entry of info["formats"]
FmtVcodec(f)   == Lower(GetOr(f, "vcodec", None))
FmtAcodec(f)   == Lower(GetOr(f, "acodec", None))
FmtProtocol(f) == Lower(GetOr(f, "protocol", None))
FmtExt(f)      == Lower(GetOr(f, "ext", None))
FmtHeight(f)   == GetIntOr(f, "height", 0)

\* app.py:63-65, 72-75: the entry becomes a candidate
HasAv(f) == FmtVcodec(f) # s_none /\ FmtAcodec(f) # s_none

Httpish(f) == StartsWith(FmtProtocol(f), s_http)

IsCandidate(f) == Truthy(f, "url") /\ HasAv(f) /\ Httpish(f)

\* Score with bonuses that outweigh the height (a fault to test against)
ScoreBigBonus(f) ==
    (IF FmtExt(f) = s_mp4 THEN 1000 ELSE 0)
    + (IF StartsWith(FmtVcodec(f), s_avc) \/ Contains(FmtVcodec(f), s_h264)
       THEN 1000 ELSE 0)
    + Min(FmtHeight(f), 2160)

\* Score with a codec bonus twice the container bonus (a fault to test
\* against)
ScoreCodecFirst(f) ==
    (IF FmtExt(f) = s_mp4 THEN 10 ELSE 0)
    + (IF StartsWith(FmtVcodec(f), s_avc) \/ Contains(FmtVcodec(f), s_h264)
       THEN 20 ELSE 0)
    + Min(FmtHeight(f), 2160)

\* app.py:76-81
Score(f) ==
    (IF FmtExt(f) = s_mp4 THEN 10 ELSE 0)
    + (IF StartsWith(FmtVcodec(f), s_avc) \/ Contains(FmtVcodec(f), s_h264)
       THEN 10 ELSE 0)
    + Min(FmtHeight(f), 2160)

\* app.py:60-82: the list of (score, f) pairs, in the order of info["formats"]
RECURSIVE Candidates(_)
Candidates(formats) ==
    IF formats = << >> THEN << >>
    ELSE LET f == Head(formats)
         IN  (IF IsCandidate(f) THEN << <<Score(f), f>> >> ELSE << >>)
             \o Candidates(Tail(formats))

\* InsertDesc putting x before the elements of equal key (a fault to test
\* against)
RECURSIVE InsertDescUnstable(_, _)
InsertDescUnstable(x, sorted) ==
    IF sorted = << >> THEN <<x>>
    ELSE IF Head(sorted)[1] > x[1]
         THEN <<Head(sorted)>> \o InsertDescUnstable(x, Tail(sorted))
         ELSE <<x>> \o sorted

\* list.sort(key=score, reverse=True) is stable: equal keys keep their order.
\* Insertion of x behind every element whose key is >= x's key.
RECURSIVE InsertDesc(_, _)
InsertDesc(x, sorted) ==
    IF sorted = << >> THEN <<x>>
    ELSE IF Head(sorted)[1] >= x[1]
         THEN <<Head(sorted)>> \o InsertDesc(x, Tail(sorted))
         ELSE <<x>> \o sorted

RECURSIVE SortDescFrom(_, _)
SortDescFrom(todo, sorted) ==
    IF todo = << >> THEN sorted
    ELSE SortDescFrom(Tail(todo), InsertDesc(Head(todo), sorted))

\* app.py:85
SortDesc(cands) == SortDescFrom(cands, << >>)

\* app.py:89-92: the first entry of requested_formats that has a url
RECURSIVE FirstWithUrl(_)
FirstWithUrl(rf) ==
    IF rf = << >> THEN None
    ELSE IF Truthy(Head(rf), "url") THEN Head(rf)
    ELSE FirstWithUrl(Tail(rf))

\* pick_format trying the top-level url before requested_formats (a fault to
\* test against)
pick_formatTopFirst(info) ==
    LET formats    == GetOr(info, "formats", << >>)
        candidates == Candidates(formats)
        rf         == GetOr(info, "requested_formats", << >>)
    IN  IF candidates # << >> THEN SortDesc(candidates)[1][2]
        ELSE IF Truthy(info, "url") THEN info
        ELSE IF FirstWithUrl(rf) # None THEN FirstWithUrl(rf)
        ELSE None

\* app.py:55-95
pick_format(info) ==
    LET formats    == GetOr(info, "formats", << >>)
        candidates == Candidates(formats)
        rf         == GetOr(info, "requested_formats", << >>)
    IN  IF candidates # << >> THEN SortDesc(candidates)[1][2]
        ELSE IF FirstWithUrl(rf) # None THEN FirstWithUrl(rf)
        ELSE IF Truthy(info, "url") THEN info
        ELSE None

-----------------------------------------------------------------------------
(* The expiry computation of extract_stream, app.py:130-136 *)

RECURSIVE Split(_, _)
\* str.split(sep) for a one-character separator
Split(s, sep) ==
    IF Find(s, sep) = 0 THEN <<s>>
    ELSE <<SubSeq(s, 1, Find(s, sep) - 1)>>
         \o Split(SubSeq(s, Find(s, sep) + 1, Len(s)), sep)

\* urllib.parse.urlparse(url).query: urlsplit cuts the fragment at the first
\* '#', then the query at the first '?' of what is left.
UrlQuery(url) ==
    LET h      == Find(url, "#")
        nofrag == IF h = 0 THEN url ELSE SubSeq(url, 1, h - 1)
        q      == Find(nofrag, "?")
    IN  IF q = 0 THEN << >> ELSE SubSeq(nofrag, q + 1, Len(nofrag))

\* urllib.parse.parse_qsl(query) with the defaults keep_blank_values=False,
\* strict_parsing=False: the (name, value) pairs in order; a field without
\* '=' and a field with an empty value are dropped.  Percent- and
\* plus-decoding change no character of the alphabet used here.
RECURSIVE QslOf(_)
QslOf(fields) ==
    IF fields = << >> THEN << >>
    ELSE LET nv == Head(fields)
             e  == Find(nv, "=")
         IN  (IF e = 0 \/ e = Len(nv) THEN << >>
              ELSE << <<SubSeq(nv, 1, e - 1), SubSeq(nv, e + 1, Len(nv))>> >>)
             \o QslOf(Tail(fields))

ParseQsl(query) == IF query = << >> THEN << >> ELSE QslOf(Split(query, "&"))

s_expire == <<"e","x","p","i","r","e">>

\* urllib.parse.parse_qs(query)["expire"]: the values of the fields named
\* expire, in order; << >> when "expire" is not a key of the dict
RECURSIVE ValuesOf(_, _)
ValuesOf(pairs, name) ==
    IF pairs = << >> THEN << >>
    ELSE (IF Head(pairs)[1] = name THEN <<Head(pairs)[2]>> ELSE << >>)
         \o ValuesOf(Tail(pairs), name)

\* ExpireValues keeping the last value only (a fault to test against)
LastExpireValues(url) ==
    LET vs == ValuesOf(ParseQsl(UrlQuery(url)), s_expire)
    IN  IF vs = << >> THEN << >> ELSE <<vs[Len(vs)]>>

\* app.py:131-133: qs["expire"], << >> when "expire" is not in qs
ExpireValues(url) == ValuesOf(ParseQsl(UrlQuery(url)), s_expire)

DigitVal(c) ==
    CASE c = "0" -> 0 [] c = "1" -> 1 [] c = "2" -> 2 [] c = "3" -> 3
      [] c = "4" -> 4 [] c = "5" -> 5 [] c = "6" -> 6 [] c = "7" -> 7
      [] c = "8" -> 8 [] c = "9" -> 9

\* int(s) raises ValueError unless s is an optional sign and decimal digits
IsIntLiteral(s) ==
    LET d == IF s # << >> /\ s[1] = "-" THEN Tail(s) ELSE s
    IN  d # << >> /\ \A i \in 1..Len(d) : d[i] \in DigitChars

RECURSIVE DigitsVal(_, _)
DigitsVal(d, acc) ==
    IF d = << >> THEN acc ELSE DigitsVal(Tail(d), 10 * acc + DigitVal(Head(d)))

\* int(s), for s with IsIntLiteral(s)
IntOf(s) ==
    IF s[1] = "-" THEN 0 - DigitsVal(Tail(s), 0) ELSE DigitsVal(s, 0)

DEFAULT_TTL == 3600

\* str(ValueError) of int(); the quoted literal that follows is left out
msg_int == "invalid literal for int() with base 10"

\* app.py:131-136 with time.time() = t: the value of expires_at, or the
\* ValueError that int() raises
ExpiresAt(stream_url, t) ==
    LET vs == ExpireValues(stream_url)
    IN  IF vs # << >>
        THEN IF IsIntLiteral(vs[1])
             THEN [ok |-> TRUE, value |-> IntOf(vs[1])]
             ELSE [ok |-> FALSE, exc |-> "ValueError", msg |-> msg_int]
        ELSE [ok |-> TRUE, value |-> t + DEFAULT_TTL]

-----------------------------------------------------------------------------
(* extract_stream, app.py:98-141 *)

s_unknown == <<"u","n","k","n","o","w","n">>
s_video   == <<"v","i","d","e","o","/">>

DigitChar(d) ==
    CASE d = 0 -> "0" [] d = 1 -> "1" [] d = 2 -> "2" [] d = 3 -> "3"
      [] d = 4 -> "4" [] d = 5 -> "5" [] d = 6 -> "6" [] d = 7 -> "7"
      [] d = 8 -> "8" [] d = 9 -> "9"

RECURSIVE StrOfNat(_)
\* str(n) for an int n >= 0
StrOfNat(n) ==
    IF n < 10 THEN <<DigitChar(n)>>
    ELSE StrOfNat(n \div 10) \o <<DigitChar(n % 10)>>

\* app.py:138: str(chosen.get("format_note") or chosen.get("height") or "unknown")
Quality(chosen) ==
    IF Truthy(chosen, "format_note") THEN chosen.format_note
    ELSE IF GetIntOr(chosen, "height", 0) # 0 THEN StrOfNat(chosen.height)
    ELSE s_unknown

\* app.py:139-140
Mime(chosen) ==
    LET ext == Lower(GetOr(chosen, "ext", s_mp4))
    IN  IF ext = s_mp4 THEN s_video \o s_mp4 ELSE s_video \o ext

msg_nofmt == "No hay formato progresivo compatible"

\* app.py:125-141, what follows the choice of pick_format, with
\* time.time() = t: the returned tuple, or the exception raised
StreamOf(chosen, t) ==
    IF chosen = None
    THEN [ok |-> FALSE, exc |-> "RuntimeError", msg |-> msg_nofmt,
          stage |-> "select"]
    ELSE LET e == ExpiresAt(chosen.url, t)
         IN  IF ~e.ok
             THEN [ok |-> FALSE, exc |-> e.exc, msg |-> e.msg,
                   stage |-> "expiry"]
             ELSE [ok |-> TRUE, stream_url |-> chosen.url,
                   expires_at |-> e.value, quality |-> Quality(chosen),
                   mime |-> Mime(chosen)]

\* app.py:124-141, what follows the collaborator's answer `info`
extract_stream(info, t) == StreamOf(pick_format(info), t)

-----------------------------------------------------------------------------
(* extract_video_id, app.py:47-52 *)

IdLen == 11

\* [\w\-] on the characters used here
IsIdChar(c) == c \in UpperChars \cup LowerChars \cup DigitChars \cup {"_", "-"}

Markers == << <<"v","=">>, <<"b","e","/">>, <<"s","h","o","r","t","s","/">> >>

\* MatchesAt refusing a twelfth identifier character, as if the expression
\* ended in a word boundary (a fault to test against)
MatchesAtWholeRun(url, i, k) ==
    LET m == Markers[k]
        a == i + Len(m)
    IN  /\ a + IdLen - 1 <= Len(url)
        /\ SubSeq(url, i, a - 1) = m
        /\ \A j \in a..(a + IdLen - 1) : IsIdChar(url[j])
        /\ (a + IdLen <= Len(url) => ~IsIdChar(url[a + IdLen]))

\* the regular expression (?:v=|be/|shorts/)([\w\-]{11}) matches at index i
\* with the k-th marker
MatchesAt(url, i, k) ==
    LET m == Markers[k]
        a == i + Len(m)
    IN  /\ a + IdLen - 1 <= Len(url)
        /\ SubSeq(url, i, a - 1) = m
        /\ \A j \in a..(a + IdLen - 1) : IsIdChar(url[j])

\* extract_video_id taking the first 11 identifier characters in a row,
\* marker or not (a fault to test against)
extract_video_idNoMarker(url) ==
    LET hits == {i \in 1..(Len(url) - IdLen + 1) :
                    \A j \in i..(i + IdLen - 1) : IsIdChar(url[j])}
    IN  IF hits = {} THEN None
        ELSE LET i == CHOOSE x \in hits : \A y \in hits : x <= y
             IN  SubSeq(url, i, i + IdLen - 1)

\* re.search: the leftmost index with a match; group(1) of that match
extract_video_id(url) ==
    LET hits == {i \in 1..Len(url) : \E k \in 1..Len(Markers) : MatchesAt(url, i, k)}
    IN  IF hits = {} THEN None
        ELSE LET i == CHOOSE x \in hits : \A y \in hits : x <= y
                 k == CHOOSE x \in 1..Len(Markers) : MatchesAt(url, i, x)
             IN  SubSeq(url, i + Len(Markers[k]), i + Len(Markers[k]) + IdLen - 1)

-----------------------------------------------------------------------------
(* resolve, app.py:152-187 *)

REFRESH_GRACE_SECONDS == 30 * 60

WhiteSpace == {" ", "\t", "\n"}

RECURSIVE LStrip(_)
LStrip(s) == IF s # << >> /\ Head(s) \in WhiteSpace THEN LStrip(Tail(s)) ELSE s

RECURSIVE RStrip(_)
RStrip(s) ==
    IF s # << >> /\ s[Len(s)] \in WhiteSpace
    THEN RStrip(SubSeq(s, 1, Len(s) - 1)) ELSE s

\* str.strip()
Strip(s) == RStrip(LStrip(s))

\* BodyUrl without strip() (a fault to test against)
BodyUrlRaw(data) == GetOr(data, "url", << >>)

\* app.py:159-160: (data.get("url") or "").strip(); a body that is no JSON
\* object is {}
BodyUrl(data) == Strip(GetOr(data, "url", << >>))

\* IsFresh with >= and with the difference reversed (faults to test against)
IsFreshGe(hit, now) ==
    hit # None /\ hit.expiresAt - now >= REFRESH_GRACE_SECONDS

IsFreshSwapped(hit, now) ==
    hit # None /\ now - hit.expiresAt > REFRESH_GRACE_SECONDS

\* app.py:170: the cached entry is reused
IsFresh(hit, now) ==
    hit # None /\ hit.expiresAt - now > REFRESH_GRACE_SECONDS

\* app.py:169: CACHE.get(vid)
CacheGet(cache, vid) == IF vid \in DOMAIN cache THEN cache[vid] ELSE None

\* CachePut updating two fields of an existing entry, and CachePut keeping
\* an existing entry (faults to test against)
CachePutMerge(cache, vid, payload) ==
    [k \in DOMAIN cache \cup {vid} |->
        IF k # vid THEN cache[k]
        ELSE IF vid \in DOMAIN cache
             THEN [cache[vid] EXCEPT !.streamUrl = payload.streamUrl,
                                     !.expiresAt = payload.expiresAt]
             ELSE payload]

CachePutIfAbsent(cache, vid, payload) ==
    [k \in DOMAIN cache \cup {vid} |-> IF k \in DOMAIN cache THEN cache[k] ELSE payload]

\* CachePut dropping every other entry (a fault to test against)
CachePutSingle(cache, vid, payload) == [k \in {vid} |-> payload]

\* app.py:186: CACHE[vid] = payload
CachePut(cache, vid, payload) ==
    [k \in DOMAIN cache \cup {vid} |-> IF k = vid THEN payload ELSE cache[k]]

\* Payload with the identifier and the stream URL mixed up (a fault to test
\* against)
PayloadSwapped(vid, r) ==
    [videoId      |-> r.stream_url,
     streamUrl    |-> vid,
     expiresAt    |-> r.expires_at,
     quality      |-> r.quality,
     mime         |-> r.mime,
     graceSeconds |-> REFRESH_GRACE_SECONDS]

\* app.py:178-185
Payload(vid, r) ==
    [videoId      |-> vid,
     streamUrl    |-> r.stream_url,
     expiresAt    |-> r.expires_at,
     quality      |-> r.quality,
     mime         |-> r.mime,
     graceSeconds |-> REFRESH_GRACE_SECONDS]

\* app.py:162, 166: jsonify({"error": code}), 400
ClientError(code) == [status |-> 400, body |-> [error |-> code]]

\* ResolveFailed without the diagnostic (a fault to test against)
ResolveFailedNoDetail(msg) ==
    [status |-> 500, body |-> [error |-> "resolve_failed", detail |-> ""]]

\* app.py:176: jsonify({"error": "resolve_failed", "detail": str(e)}), 500
ResolveFailed(msg) ==
    [status |-> 500, body |-> [error |-> "resolve_failed", detail |-> msg]]

\* app.py:171, 187: jsonify(payload), 200
Ok(payload) == [status |-> 200, body |-> payload]

-----------------------------------------------------------------------------
(* The service: worker threads of the request framework run resolve()      *)
(* concurrently against the one CACHE dict.                                 *)

NumWorkers  == 2
MaxRequests == 2
MaxTicks    == 2

Workers == 1..NumWorkers

\* Request URLs
url_watch_A  == <<"y","t",".","c","o","m","/","w","a","t","c","h","?","v","=","d","Q","w","4","w","9","W","g","X","c","Q">>
url_short_A  == <<" ","y","o","u","t","u",".","b","e","/","d","Q","w","4","w","9","W","g","X","c","Q","\n">>
url_shorts_A == <<"y","t",".","c","o","m","/","s","h","o","r","t","s","/","d","Q","w","4","w","9","W","g","X","c","Q">>
url_watch_B  == <<"y","t",".","c","o","m","/","w","a","t","c","h","?","v","=","a","-","b","_","c","1","2","3","X","Y","Z","&","t","=","5">>
url_other    == <<"e","x","a","m","p","l","e",".","c","o","m","/","n","o","t","-","a","-","v","i","d","e","o">>
url_blank    == <<" ","\t">>

id_A == <<"d","Q","w","4","w","9","W","g","X","c","Q">>
id_B == <<"a","-","b","_","c","1","2","3","X","Y","Z">>

\* app.py:159: the JSON bodies a client may post
Bodies ==
    { [url |-> url_watch_A], [url |-> url_short_A], [url |-> url_watch_B],
      [url |-> url_other], [url |-> url_blank], [url |-> << >>], << >> }

\* Stream URLs and format fields as yt-dlp reports them
su_3600  == <<"h","/","a","?","e","x","p","i","r","e","=","3","6","0","0">>
su_7200  == <<"h","/","b","?","e","x","p","i","r","e","=","7","2","0","0","&","x","=","1">>
su_plain == <<"h","/","c">>
su_bad   == <<"h","/","d","?","e","x","p","i","r","e","=","a","b">>

p_https == <<"h","t","t","p","s">>
p_m3u8  == <<"m","3","u","8","_","n","a","t","i","v","e">>
c_avc1  == <<"a","v","c","1",".","6","4","0","0","1","F">>
c_vp9   == <<"v","p","9">>
c_mp4a  == <<"m","p","4","a",".","4","0",".","2">>
c_opus  == <<"o","p","u","s">>
e_webm  == <<"w","e","b","m">>
n_720p  == <<"7","2","0","p">>

f_mp4_720 ==
    [url |-> su_3600, vcodec |-> c_avc1, acodec |-> c_mp4a, protocol |-> p_https,
     ext |-> s_mp4, height |-> 720, format_note |-> n_720p]
f_webm_plain ==
    [url |-> su_plain, vcodec |-> c_vp9, acodec |-> c_opus, protocol |-> p_https,
     ext |-> e_webm, height |-> 1080]
f_mp4_360_plain ==
    [url |-> su_plain, vcodec |-> c_avc1, acodec |-> c_mp4a, protocol |-> p_https,
     ext |-> s_mp4, height |-> 360]
f_mp4_360_bad ==
    [url |-> su_bad, vcodec |-> c_avc1, acodec |-> c_mp4a, protocol |-> p_https,
     ext |-> s_mp4, height |-> 360]
f_video_only ==
    [url |-> su_7200, vcodec |-> c_avc1, acodec |-> s_none, protocol |-> p_https,
     ext |-> s_mp4, height |-> 2160]
f_hls ==
    [url |-> su_7200, vcodec |-> c_avc1, acodec |-> c_mp4a, protocol |-> p_m3u8,
     ext |-> s_mp4, height |-> 1080]

msg_unavailable == "ERROR: Video unavailable"

\* app.py:123: what ydl.extract_info(url, download=False) may do: return an
\* info dict, or raise
Outcomes ==
    { [raised |-> FALSE, info |-> [formats |-> <<f_mp4_360_plain, f_mp4_720, f_hls>>]],
      [raised |-> FALSE, info |-> [formats |-> <<f_video_only, f_webm_plain>>]],
      [raised |-> FALSE, info |-> [formats |-> <<f_mp4_360_bad>>]],
      [raised |-> FALSE, info |-> [formats |-> <<f_video_only, f_hls>>]],
      [raised |-> TRUE, msg |-> msg_unavailable] }

\* The values the clock takes
Times == {k * REFRESH_GRACE_SECONDS : k \in 0..MaxTicks}

\* app.py:159-164 on each body, and app.py:124-141 on each answer of the
\* collaborator at each time: tabulated once, as they depend on nothing else
Parsed ==
    [data \in Bodies |->
        [url |-> BodyUrl(data), vid |-> extract_video_id(BodyUrl(data))]]

Streams ==
    [o \in {x \in Outcomes : ~x.raised}, t \in Times |-> extract_stream(o.info, t)]

Idle ==
    [pc |-> "idle", url |-> None, vid |-> None, now |-> 0, hit |-> None,
     r |-> None, resp |-> None, calls |-> 0]

\* resolve() returns resp: of the locals of the call, what the outcome does
\* not depend on (the two clock readings) is dropped
Return(q, r, resp) ==
    [Idle EXCEPT !.pc = "done", !.url = q.url, !.vid = q.vid, !.hit = q.hit,
                 !.r = r, !.calls = q.calls, !.resp = resp]

PfIdle == [pc |-> "off"]
ExIdle == [pc |-> "off"]
IdxIdle == [pc |-> "off"]

Init ==
    /\ CACHE = << >>
    /\ clock = 0
    /\ req = [w \in Workers |-> Idle]
    /\ served = 0
    /\ pf = PfIdle
    /\ ex = ExIdle
    /\ idx = IdxIdle

\* app.py:159-171: a worker takes a request, validates the body, reads the
\* clock and looks the identifier up in CACHE.  The clock is read before the
\* cache; a step of another thread between the two reads commutes with one
\* of them, so the two reads are one step.  The threads of the pool are
\* interchangeable: the request goes to the first free one.
Receive(w, data) ==
    /\ req[w].pc = "idle"
    /\ \A v \in Workers : v < w => req[v].pc # "idle"
    /\ served < MaxRequests
    /\ served' = served + 1
    /\ LET url == Parsed[data].url
           vid == Parsed[data].vid
           hit == CacheGet(CACHE, vid)
       IN  req' = [req EXCEPT ![w] =
                IF url = << >>
                THEN [Idle EXCEPT !.pc = "done", !.resp = ClientError("missing_url")]
                ELSE IF vid = None
                THEN [Idle EXCEPT !.pc = "done", !.url = url,
                                  !.resp = ClientError("invalid_youtube_url")]
                ELSE IF IsFresh(hit, clock)
                THEN [Idle EXCEPT !.pc = "done", !.url = url, !.vid = vid,
                                  !.hit = hit, !.resp = Ok(hit)]
                ELSE [Idle EXCEPT !.pc = "extracting", !.url = url, !.vid = vid,
                                  !.now = clock, !.hit = hit]]
    /\ UNCHANGED <<CACHE, clock, pf, ex, idx>>

\* Extract calling the collaborator a second time after it raised (a fault to
\* test against)
ExtractRetry(w) ==
    /\ req[w].pc = "extracting"
    /\ \E o \in Outcomes :
         LET r == IF o.raised
                  THEN [ok |-> FALSE, exc |-> "DownloadError", msg |-> o.msg,
                        stage |-> "extract"]
                  ELSE Streams[o, clock]
         IN  req' = [req EXCEPT ![w] =
                IF r.ok
                THEN [@ EXCEPT !.pc = "writing", !.calls = @ + 1, !.r = r]
                ELSE IF o.raised /\ req[w].calls = 0
                THEN [@ EXCEPT !.calls = @ + 1]
                ELSE Return([req[w] EXCEPT !.calls = @ + 1], r, ResolveFailed(r.msg))]
    /\ UNCHANGED <<CACHE, clock, served, pf, ex, idx>>

\* Extract answering 200 at once, without the cache write (a fault to test
\* against)
ExtractNoWrite(w) ==
    /\ req[w].pc = "extracting"
    /\ \E o \in Outcomes :
         LET r == IF o.raised
                  THEN [ok |-> FALSE, exc |-> "DownloadError", msg |-> o.msg,
                        stage |-> "extract"]
                  ELSE Streams[o, clock]
             q == [req[w] EXCEPT !.calls = @ + 1]
         IN  req' = [req EXCEPT ![w] =
                IF r.ok THEN Return(q, r, Ok(Payload(q.vid, r)))
                ELSE Return(q, r, ResolveFailed(r.msg))]
    /\ UNCHANGED <<CACHE, clock, served, pf, ex, idx>>

\* app.py:173-176 and 122-141: the call of the extraction collaborator, then
\* format selection and expiry computation on what it returned.  Only the
\* clock is read, once, after the collaborator has answered.
Extract(w) ==
    /\ req[w].pc = "extracting"
    /\ \E o \in Outcomes :
         LET r == IF o.raised
                  THEN [ok |-> FALSE, exc |-> "DownloadError", msg |-> o.msg,
                        stage |-> "extract"]
                  ELSE Streams[o, clock]
         IN  req' = [req EXCEPT ![w] =
                IF r.ok
                THEN [@ EXCEPT !.pc = "writing", !.calls = @ + 1, !.r = r]
                ELSE Return([req[w] EXCEPT !.calls = @ + 1], r, ResolveFailed(r.msg))]
    /\ UNCHANGED <<CACHE, clock, served, pf, ex, idx>>

\* app.py:178-187
CacheWrite(w) ==
    /\ req[w].pc = "writing"
    /\ LET payload == Payload(req[w].vid, req[w].r)
       IN  /\ CACHE' = CachePut(CACHE, req[w].vid, payload)
           /\ req' = [req EXCEPT ![w] = Return(req[w], req[w].r, Ok(payload))]
    /\ UNCHANGED <<clock, served, pf, ex, idx>>

\* the framework has sent the response; the thread is free again
Reply(w) ==
    /\ req[w].pc = "done"
    /\ req' = [req EXCEPT ![w] = Idle]
    /\ UNCHANGED <<CACHE, clock, served, pf, ex, idx>>

\* time passes
Tick ==
    /\ clock < MaxTicks * REFRESH_GRACE_SECONDS
    /\ clock' = clock + REFRESH_GRACE_SECONDS
    /\ UNCHANGED <<CACHE, req, served, pf, ex, idx>>

Next ==
    \/ \E w \in Workers, data \in Bodies : Receive(w, data)
    \/ \E w \in Workers : Extract(w)
    \/ \E w \in Workers : CacheWrite(w)
    \/ \E w \in Workers : Reply(w)
    \/ Tick

Spec == Init /\ [][Next]_vars

\* The worker threads keep running: a request that is in resolve() goes on,
\* given that the collaborator returns or raises, and its response is sent
SpecFair ==
    /\ Spec
    /\ \A w \in Workers :
          WF_vars(Extract(w)) /\ WF_vars(CacheWrite(w)) /\ WF_vars(Reply(w))

-----------------------------------------------------------------------------
(* pick_format on its own: every info dict built from a pool of entries *)

MaxFormats == 2

c_x264    == <<"x","-","h","2","6","4">>
c_AVC1    == <<"A","V","C","1">>
c_NONE    == <<"N","o","n","e">>
e_MP4     == <<"M","P","4">>
p_HTTPS   == <<"H","T","T","P","S">>
su_req    == <<"h","/","r">>
su_top    == <<"h","/","t">>

Heights == {480, 710, 720}

\* progressive entries: container x video codec x height
Progressive ==
    { [url |-> su_plain, vcodec |-> v, acodec |-> c_mp4a, protocol |-> p_https,
       ext |-> e, height |-> h] :
         e \in {s_mp4, e_webm}, v \in {c_avc1, c_vp9}, h \in Heights }

FormatPool ==
    Progressive \cup
    { \* heights at and above the cap of the score
      [url |-> su_plain, vcodec |-> c_vp9, acodec |-> c_opus,
       protocol |-> p_https, ext |-> e_webm, height |-> 2160],
      [url |-> su_plain, vcodec |-> c_vp9, acodec |-> c_opus,
       protocol |-> p_https, ext |-> e_webm, height |-> 4320],
      \* upper-case metadata, an h264 name that does not start with avc
      [url |-> su_plain, vcodec |-> c_AVC1, acodec |-> c_mp4a,
       protocol |-> p_HTTPS, ext |-> e_MP4, height |-> 720],
      [url |-> su_plain, vcodec |-> c_x264, acodec |-> c_opus,
       protocol |-> p_https, ext |-> e_webm, height |-> 720],
      \* no height, no codecs reported
      [url |-> su_plain, protocol |-> p_https, ext |-> s_mp4],
      \* rejected: no url, video only, audio only ("None"), not http
      [vcodec |-> c_avc1, acodec |-> c_mp4a, protocol |-> p_https,
       ext |-> s_mp4, height |-> 2160],
      [url |-> su_7200, vcodec |-> c_avc1, acodec |-> s_none,
       protocol |-> p_https, ext |-> s_mp4, height |-> 2160],
      [url |-> su_7200, vcodec |-> c_NONE, acodec |-> c_mp4a,
       protocol |-> p_https, ext |-> s_mp4, height |-> 2160],
      [url |-> su_7200, vcodec |-> c_avc1, acodec |-> c_mp4a,
       protocol |-> p_m3u8, ext |-> s_mp4, height |-> 2160] }

\* the sequences over S of length at most n
SeqsUpTo(S, n) == UNION { [1..k -> S] : k \in 0..n }

RequestedPool ==
    { << >>,
      << [vcodec |-> c_avc1, acodec |-> s_none, ext |-> s_mp4] >>,
      << [vcodec |-> c_avc1, acodec |-> s_none, ext |-> s_mp4],
         [url |-> su_req, vcodec |-> c_avc1, acodec |-> s_none, ext |-> s_mp4],
         [url |-> su_top, vcodec |-> s_none, acodec |-> c_mp4a, ext |-> e_webm] >> }

\* app.py:123: the info dict handed to pick_format, with or without a
\* top-level url
InfoOf(fs, rf, top) ==
    IF top
    THEN [formats |-> fs, requested_formats |-> rf, url |-> su_top, ext |-> s_mp4]
    ELSE [formats |-> fs, requested_formats |-> rf]

ServiceIdle ==
    /\ CACHE = << >>
    /\ clock = 0
    /\ req = [w \in Workers |-> Idle]
    /\ served = 0

PickInit ==
    /\ ServiceIdle
    /\ \E fs \in SeqsUpTo(FormatPool, MaxFormats), rf \in RequestedPool,
          top \in BOOLEAN :
         pf = [pc |-> "ready", info |-> InfoOf(fs, rf, top), chosen |-> None,
               resp |-> None]
    /\ ex = ExIdle
    /\ idx = IdxIdle

\* app.py:124
Pick ==
    /\ pf.pc = "ready"
    /\ pf' = [pf EXCEPT !.pc = "done", !.chosen = pick_format(pf.info)]
    /\ UNCHANGED <<CACHE, clock, req, served, ex, idx>>

\* app.py:125-141 and 173-187: what resolve answers for this info dict (for
\* the identifier id_A, at the time of the clock)
Surface ==
    /\ pf.pc = "done"
    /\ LET r == StreamOf(pf.chosen, clock)
       IN  pf' = [pf EXCEPT !.pc = "surfaced",
                            !.resp = IF r.ok THEN Ok(Payload(id_A, r))
                                     ELSE ResolveFailed(r.msg)]
    /\ UNCHANGED <<CACHE, clock, req, served, ex, idx>>

PickNext == Pick \/ Surface

SpecPick == PickInit /\ [][PickNext]_vars

-----------------------------------------------------------------------------
(* The expiry computation on its own: stream URLs rendered from a list of   *)
(* query fields                                                              *)

MaxFields == 2

\* a query field: its name, its value, whether it has an '=', and, when the
\* value is a decimal literal, the number it denotes
FieldPool ==
    { [name |-> s_expire, eq |-> TRUE,  value |-> <<"7","2","0","0">>, int |-> TRUE,  n |-> 7200],
      [name |-> s_expire, eq |-> TRUE,  value |-> <<"5">>,             int |-> TRUE,  n |-> 5],
      [name |-> s_expire, eq |-> TRUE,  value |-> <<"-","3">>,         int |-> TRUE,  n |-> 0 - 3],
      [name |-> s_expire, eq |-> TRUE,  value |-> <<"a","b">>,         int |-> FALSE, n |-> 0],
      [name |-> s_expire, eq |-> TRUE,  value |-> << >>,               int |-> FALSE, n |-> 0],
      [name |-> s_expire, eq |-> FALSE, value |-> << >>,               int |-> FALSE, n |-> 0],
      [name |-> <<"x">>,  eq |-> TRUE,  value |-> <<"1">>,             int |-> TRUE,  n |-> 1],
      [name |-> <<"e","x","p","i","r","e","s">>, eq |-> TRUE, value |-> <<"8">>, int |-> TRUE, n |-> 8] }

RenderField(f) == f.name \o (IF f.eq THEN <<"=">> \o f.value ELSE << >>)

RECURSIVE JoinFields(_)
JoinFields(fs) ==
    IF fs = << >> THEN << >>
    ELSE IF Len(fs) = 1 THEN RenderField(fs[1])
    ELSE RenderField(fs[1]) \o <<"&">> \o JoinFields(Tail(fs))

\* the stream URL with these query fields; where says whether a fragment
\* follows the query ("tail"), precedes the '?' ("head") or is absent
RenderUrl(fs, where) ==
    LET q == IF fs = << >> THEN << >> ELSE <<"?">> \o JoinFields(fs)
    IN  CASE where = "none" -> <<"h","/","v">> \o q
          [] where = "tail" -> <<"h","/","v">> \o q \o <<"#","t">>
          [] where = "head" -> <<"h","/","v","#","t">> \o q

\* app.py:128, 136: the stream URL handed to the expiry computation and the
\* time at which it runs
ExpiryInit ==
    /\ ServiceIdle
    /\ pf = PfIdle
    /\ \E fs \in SeqsUpTo(FieldPool, MaxFields), wh \in {"none", "tail", "head"},
          t \in Times :
         ex = [pc |-> "ready", fields |-> fs, where |-> wh,
               url |-> RenderUrl(fs, wh), t |-> t, result |-> None]
    /\ idx = IdxIdle

\* app.py:131-136
Expiry ==
    /\ ex.pc = "ready"
    /\ ex' = [ex EXCEPT !.pc = "done", !.result = ExpiresAt(ex.url, ex.t)]
    /\ UNCHANGED <<CACHE, clock, req, served, pf, idx>>

ExpiryNext == Expiry

SpecExpiry == ExpiryInit /\ [][ExpiryNext]_vars

-----------------------------------------------------------------------------
(* extract_video_id on its own: URLs put together from a head, a marker or   *)
(* something like one, a run of identifier characters and a tail             *)

MaxRun == 12

UrlHeads ==
    { << >>,
      <<"y","t",".","c","o","m","/","w","a","t","c","h","?">>,
      <<"y","o","u","t","u",".">>,
      <<"y","t",".","c","o","m","/">> }

\* the three markers, and near misses of them
UrlMarks ==
    { <<"v","=">>, <<"b","e","/">>, <<"s","h","o","r","t","s","/">>,
      <<"V","=">>, <<"b","e">>, <<"s","h","o","r","t","/">>, << >> }

UrlTails ==
    { << >>, <<"&","t","=","5">>, <<"/">>, <<"&","v","=">> \o id_A }

\* the first n characters of id_B id_A, the dot-th of them replaced by a
\* dot when dot is not 0
UrlRun(n, dot) ==
    [i \in 1..n |-> IF i = dot THEN "." ELSE (id_B \o id_A)[i]]

\* app.py:164: the URL handed to extract_video_id
IdInit ==
    /\ ServiceIdle
    /\ pf = PfIdle
    /\ ex = ExIdle
    /\ \E h \in UrlHeads, m \in UrlMarks, n \in 0..MaxRun, t \in UrlTails :
         \E dot \in 0..n :
            idx = [pc |-> "ready", url |-> h \o m \o UrlRun(n, dot) \o t,
                   vid |-> None]

\* app.py:164
Identify ==
    /\ idx.pc = "ready"
    /\ idx' = [idx EXCEPT !.pc = "done", !.vid = extract_video_id(idx.url)]
    /\ UNCHANGED <<CACHE, clock, req, served, pf, ex>>

IdNext == Identify

SpecId == IdInit /\ [][IdNext]_vars

-----------------------------------------------------------------------------
(* Properties of resolve *)

PayloadFields ==
    {"videoId", "streamUrl", "expiresAt", "quality", "mime", "graceSeconds"}

\* worker w takes a request in this step
Arrives(w) == req[w].pc = "idle" /\ req'[w].pc # "idle"

\* worker w finishes its request in this step
Finishes(w) == req[w].pc # "done" /\ req'[w].pc = "done"

\* the cache holds an entry for vid with more than 1800 s left at time now
Over1800(cache, vid, now) ==
    vid \in DOMAIN cache /\ cache[vid].expiresAt - now > 1800

\* C1: a request whose identifier has a cached entry with expiresAt - now >
\* 1800 is answered 200 with exactly the cached payload (its six fields),
\* without a call of the extraction collaborator and without a change of the
\* cache, whatever URL shape carried the identifier.
C1_FreshHit ==
    [][\A w \in Workers :
         (/\ Arrives(w)
          /\ req'[w].vid # None
          /\ Over1800(CACHE, req'[w].vid, clock))
         => /\ req'[w].pc = "done"
            /\ req'[w].resp = [status |-> 200, body |-> CACHE[req'[w].vid]]
            /\ DOMAIN req'[w].resp.body = PayloadFields
            /\ req'[w].calls = 0
            /\ CACHE' = CACHE]_vars

\* C1 happens: the watch URL was resolved by one worker and the short link of
\* the same identifier, with white space around it, is answered from the cache
C1_Witness ==
    \E w, v \in Workers :
        /\ req[v].pc = "done" /\ req[v].url = url_watch_A /\ req[v].calls = 1
        /\ req[v].resp.status = 200
        /\ req[w].pc = "done" /\ req[w].url = Strip(url_short_A)
        /\ req[w].calls = 0
        /\ req[w].resp = [status |-> 200, body |-> req[v].resp.body]
        /\ CACHE[id_A] = req[w].resp.body

\* C2: the freshness test is strict.  A request with a valid identifier is
\* answered from the cache iff its entry has expiresAt - now > 1800;
\* otherwise (no entry, or expiresAt - now <= 1800, 1800 included) it goes on
\* to the extraction collaborator, which it then calls.
C2_StrictFreshness ==
    [][\A w \in Workers :
         /\ (Arrives(w) /\ req'[w].vid # None)
            => IF Over1800(CACHE, req'[w].vid, clock)
               THEN req'[w].pc = "done" /\ req'[w].calls = 0
               ELSE /\ req'[w].pc = "extracting"
                    /\ req'[w].resp = None
                    /\ req'[w].calls = 0
         /\ (req[w].pc = "extracting" /\ req'[w] # req[w])
            => req'[w].calls = 1]_vars

\* C2 happens: the entry read had exactly 1800 s left and the collaborator
\* was called
C2_Witness ==
    \E w \in Workers :
        /\ req[w].pc = "writing"
        /\ req[w].hit # None
        /\ req[w].hit.expiresAt - req[w].now = 1800
        /\ req[w].calls = 1

\* C3: a successful non-cached resolution stores its payload under its
\* identifier, replacing the previous entry as a whole: right after, the
\* entry equals the payload returned, and the entries of the other
\* identifiers are as before.
C3_WholeReplace ==
    [][\A w \in Workers :
         (/\ Finishes(w)
          /\ req'[w].resp.status = 200
          /\ req'[w].calls = 1)
         => /\ DOMAIN CACHE' = DOMAIN CACHE \cup {req'[w].vid}
            /\ CACHE'[req'[w].vid] = req'[w].resp.body
            /\ DOMAIN req'[w].resp.body = PayloadFields
            /\ \A k \in DOMAIN CACHE \ {req'[w].vid} : CACHE'[k] = CACHE[k]]_vars

\* C3 happens: the request read a stale entry and replaced it by a payload
\* that differs from it in every field but videoId and graceSeconds
C3_Witness ==
    \E w \in Workers :
        /\ req[w].pc = "done" /\ req[w].calls = 1
        /\ req[w].resp.status = 200
        /\ req[w].hit # None
        /\ \A k \in {"streamUrl", "expiresAt", "quality", "mime"} :
              req[w].hit[k] # req[w].resp.body[k]
        /\ CACHE[req[w].vid] = req[w].resp.body

\* C4: when the collaborator fails or no format is selected, the request
\* ends 500 resolve_failed with the diagnostic as detail and leaves the cache
\* as it is; the cache changes only in the step that completes a successful
\* resolution, so failed requests leave nothing behind for later ones.
C4_FailureLeavesCache ==
    [][/\ \A w \in Workers :
            (/\ Finishes(w)
             /\ req'[w].calls = 1
             /\ ~req'[w].r.ok
             /\ req'[w].r.stage \in {"extract", "select"})
            => /\ req'[w].resp =
                    [status |-> 500,
                     body |-> [error |-> "resolve_failed", detail |-> req'[w].r.msg]]
               /\ req'[w].r.msg \in {msg_unavailable, msg_nofmt}
               /\ CACHE' = CACHE
       /\ CACHE' # CACHE
            => \E w \in Workers :
                  /\ req[w].pc = "writing" /\ Finishes(w)
                  /\ req'[w].resp.status = 200]_vars

\* C4 happens: no format could be selected while a stale entry was cached,
\* and the stale entry is still there
C4_Witness ==
    \E w \in Workers :
        /\ req[w].pc = "done" /\ req[w].calls = 1
        /\ req[w].resp.status = 500
        /\ req[w].r.stage = "select"
        /\ req[w].hit # None
        /\ CACHE[req[w].vid] = req[w].hit

\* what extract_stream can return to resolve
OkStreams == {Streams[x] : x \in {y \in DOMAIN Streams : Streams[y].ok}}

\* e is one complete payload of a resolution for identifier k
WholePayload(k, e) ==
    /\ DOMAIN e = PayloadFields
    /\ e.videoId = k
    /\ e.graceSeconds = 1800
    /\ [ok |-> TRUE, stream_url |-> e.streamUrl, expires_at |-> e.expiresAt,
        quality |-> e.quality, mime |-> e.mime] \in OkStreams

\* C5: concurrent requests for one identifier that both miss are not
\* de-duplicated (each calls the collaborator itself, even when another has
\* written the entry meanwhile), the entry is the complete payload of the
\* request that wrote last, and no cache entry ever mixes two payloads.
C5_LastWriterWins ==
    /\ [](\A k \in DOMAIN CACHE : WholePayload(k, CACHE[k]))
    /\ [][\A w \in Workers :
            /\ (req[w].pc = "writing" /\ Finishes(w))
               => (CACHE'[req[w].vid] = req'[w].resp.body /\ req'[w].calls = 1)
            /\ (req[w].pc = "extracting" /\ req'[w] # req[w])
               => req'[w].calls = 1]_vars

\* C5 happens: two requests for one identifier both read an empty cache,
\* both called the collaborator, got different payloads, and the cache holds
\* one of the two
C5_Witness ==
    \E w, v \in Workers :
        /\ w # v
        /\ req[w].pc = "done" /\ req[v].pc = "done"
        /\ req[w].vid = req[v].vid
        /\ req[w].hit = None /\ req[v].hit = None
        /\ req[w].calls = 1 /\ req[v].calls = 1
        /\ req[w].resp.status = 200 /\ req[v].resp.status = 200
        /\ req[w].resp.body # req[v].resp.body
        /\ CACHE[req[w].vid] = req[w].resp.body

-----------------------------------------------------------------------------
(* Properties of the expiry computation *)

\* C6: every payload that resolve creates has expiresAt strictly after the
\* time of its creation, except when the stream URL carries no expire
\* parameter, and then expiresAt is that time plus 3600.
C6_ExpiryInFuture ==
    [][\A w \in Workers :
         (req[w].pc = "extracting" /\ req'[w].pc = "writing")
         => IF ExpireValues(req'[w].r.stream_url) # << >>
            THEN req'[w].r.expires_at > clock
            ELSE req'[w].r.expires_at = clock + 3600]_vars

\* C7: no request ends in an error because of the expiry computation.
C7_ExpiryNeverFails ==
    \A w \in Workers :
        (req[w].pc = "done" /\ req[w].calls = 1 /\ ~req[w].r.ok)
        => req[w].r.stage # "expiry"

\* the fields of the rendered URL that lie in its query, those named expire,
\* and of these the ones that carry a value
FieldsInQuery == IF ex.where = "head" THEN << >> ELSE ex.fields
NamedExpire   == SelectSeq(FieldsInQuery, LAMBDA f : f.name = s_expire)
ValuedExpire  == SelectSeq(NamedExpire, LAMBDA f : f.eq /\ f.value # << >>)

\* C8: when the query of the stream URL has an expire field whose (first)
\* value is an integer, expires_at is that integer; when it has no expire
\* field, expires_at is the observation time plus 3600.
C8_ExpiryValue ==
    ex.pc = "done" =>
        /\ (ValuedExpire # << >> /\ ValuedExpire[1].int)
           => ex.result = [ok |-> TRUE, value |-> ValuedExpire[1].n]
        /\ NamedExpire = << >>
           => ex.result = [ok |-> TRUE, value |-> ex.t + 3600]

\* C8 happens: expire is repeated with two different integers and the first
\* one is the result
C8_Witness ==
    /\ ex.pc = "done"
    /\ Len(ValuedExpire) = 2
    /\ ValuedExpire[1].int /\ ValuedExpire[2].int
    /\ ValuedExpire[1].n # ValuedExpire[2].n
    /\ ex.result.value = ValuedExpire[1].n

-----------------------------------------------------------------------------
(* Properties of pick_format *)

\* a field of a formats entry as the selector reads it: absent is empty,
\* letter case is ignored
FieldOf(f, k) == IF k \in DOMAIN f THEN Lower(f[k]) ELSE << >>
HeightOf(f)   == IF "height" \in DOMAIN f THEN f.height ELSE 0

\* the entry has a direct-access URL, a protocol starting with http and
\* video and audio codecs other than none
QualifiesRule(f) ==
    /\ "url" \in DOMAIN f /\ f.url # << >>
    /\ Len(FieldOf(f, "protocol")) >= 4
    /\ SubSeq(FieldOf(f, "protocol"), 1, 4) = <<"h","t","t","p">>
    /\ FieldOf(f, "vcodec") # <<"n","o","n","e">>
    /\ FieldOf(f, "acodec") # <<"n","o","n","e">>

\* the entries of the pool that qualify
QualifyingPool == {f \in FormatPool : QualifiesRule(f)}
Qualifies(f)   == f \in QualifyingPool

\* 10 for mp4, 10 for a video codec that starts with avc or contains h264,
\* plus min(height, 2160)
ScoreRule(f) ==
    LET v == FieldOf(f, "vcodec")
    IN  (IF FieldOf(f, "ext") = <<"m","p","4">> THEN 10 ELSE 0)
        + (IF \/ (Len(v) >= 3 /\ SubSeq(v, 1, 3) = <<"a","v","c">>)
              \/ \E i \in 1..(Len(v) - 3) : SubSeq(v, i, i + 3) = <<"h","2","6","4">>
           THEN 10 ELSE 0)
        + (IF HeightOf(f) < 2160 THEN HeightOf(f) ELSE 2160)

\* the score of each entry of the pool
ScoreTable      == [f \in FormatPool |-> ScoreRule(f)]
ClaimedScore(f) == ScoreTable[f]

QualifyingIn(fs) == {i \in 1..Len(fs) : Qualifies(fs[i])}

\* C9: when some entry of formats qualifies, pick_format returns the first
\* of the qualifying entries with the highest score; an entry that does not
\* qualify is never returned from the formats list.
C9_BestFirst ==
    pf.pc = "done" =>
        LET fs == pf.info.formats
            Q  == QualifyingIn(fs)
        IN  IF Q # {}
            THEN \E i \in Q :
                    /\ pf.chosen = fs[i]
                    /\ \A j \in Q :
                          /\ ClaimedScore(fs[j]) <= ClaimedScore(fs[i])
                          /\ ClaimedScore(fs[j]) = ClaimedScore(fs[i]) => i <= j
            ELSE \A i \in 1..Len(fs) : pf.chosen # fs[i]

\* C9 happens: two different qualifying entries tie on the highest score and
\* the first one is returned
C9_Witness ==
    /\ pf.pc = "done"
    /\ Len(pf.info.formats) = 2
    /\ QualifyingIn(pf.info.formats) = {1, 2}
    /\ pf.info.formats[1] # pf.info.formats[2]
    /\ ClaimedScore(pf.info.formats[1]) = ClaimedScore(pf.info.formats[2])
    /\ pf.chosen = pf.info.formats[1]

\* of exactly two qualifying entries, pick_format returns the one of height
\* >= 720 whenever the other has height < below
HighBeats(below) ==
    pf.pc = "done" =>
        LET fs == pf.info.formats
        IN  \A i, j \in 1..Len(fs) :
               (/\ QualifyingIn(fs) = {i, j}
                /\ i # j
                /\ HeightOf(fs[i]) >= 720
                /\ HeightOf(fs[j]) < below)
               => pf.chosen = fs[i]

\* C10 as stated: of two progressive candidates, one of height >= 720 and
\* one of height < 720, the one of height >= 720 is selected whatever the
\* containers, codecs and order.
C10_HighBeatsBelow720 == HighBeats(720)

\* C10 as amended: there is no bonus for height >= 720; the score is the
\* height (capped at 2160) plus at most 20, so the candidate of height >= 720
\* is selected whenever the other has height < 700.
C10_HighBeatsBelow700 == HighBeats(700)

\* C10 happens: a 480p mp4/avc entry comes first, a 720p webm/vp9 entry
\* second, and the second is returned
C10_Witness ==
    /\ pf.pc = "done"
    /\ Len(pf.info.formats) = 2
    /\ QualifyingIn(pf.info.formats) = {1, 2}
    /\ HeightOf(pf.info.formats[1]) = 480
    /\ ClaimedScore(pf.info.formats[1]) = 500
    /\ HeightOf(pf.info.formats[2]) = 720
    /\ ClaimedScore(pf.info.formats[2]) = 720
    /\ pf.chosen = pf.info.formats[2]

\* the container is mp4; the video codec is H.264/AVC
Mp4Rule(f)  == FieldOf(f, "ext") = <<"m","p","4">>
H264Rule(f) ==
    LET v == FieldOf(f, "vcodec")
    IN  \/ (Len(v) >= 3 /\ SubSeq(v, 1, 3) = <<"a","v","c">>)
        \/ \E i \in 1..(Len(v) - 3) : SubSeq(v, i, i + 3) = <<"h","2","6","4">>

\* the entries of the pool that are mp4, and those that are H.264/AVC
Mp4Pool   == {f \in FormatPool : Mp4Rule(f)}
H264Pool  == {f \in FormatPool : H264Rule(f)}
IsMp4(f)  == f \in Mp4Pool
IsH264(f) == f \in H264Pool

\* fs[i] and fs[j] are the two qualifying entries of fs, of equal height,
\* fs[i] H.264/AVC in a container other than mp4 and fs[j] mp4 with another
\* video codec
CodecAgainstContainer(fs, i, j) ==
    /\ QualifyingIn(fs) = {i, j}
    /\ i # j
    /\ HeightOf(fs[i]) = HeightOf(fs[j])
    /\ IsH264(fs[i]) /\ ~IsMp4(fs[i])
    /\ IsMp4(fs[j]) /\ ~IsH264(fs[j])

\* C11 as stated: of two progressive candidates of equal resolution, one
\* H.264/AVC not in mp4 and one mp4 not H.264/AVC, pick_format returns the
\* H.264/AVC one, whatever their order in the list.
C11_CodecBeatsContainer ==
    pf.pc = "done" =>
        \A i, j \in 1..Len(pf.info.formats) :
            CodecAgainstContainer(pf.info.formats, i, j)
            => pf.chosen = pf.info.formats[i]

\* C11 as amended: the two bonuses are equal, the two candidates tie, and
\* pick_format returns the one that comes first in the list.
C11_TieFirstWins ==
    pf.pc = "done" =>
        \A i, j \in 1..Len(pf.info.formats) :
            CodecAgainstContainer(pf.info.formats, i, j)
            => /\ ClaimedScore(pf.info.formats[i]) = ClaimedScore(pf.info.formats[j])
               /\ pf.chosen = pf.info.formats[IF i < j THEN i ELSE j]

\* C11 happens: the mp4 entry with another codec comes first, the H.264/AVC
\* entry of the same height second, and the mp4 entry is returned
C11_Witness ==
    /\ pf.pc = "done"
    /\ Len(pf.info.formats) = 2
    /\ CodecAgainstContainer(pf.info.formats, 2, 1)
    /\ pf.chosen = pf.info.formats[1]
    /\ pf.chosen # pf.info.formats[2]

\* the first index of rf whose entry carries a non-empty url, 0 when none does
FirstUrlIndex(rf) ==
    LET has == {k \in 1..Len(rf) : "url" \in DOMAIN rf[k] /\ rf[k].url # << >>}
    IN  IF has = {} THEN 0 ELSE CHOOSE k \in has : \A m \in has : k <= m

\* C12: when no entry of formats qualifies, pick_format returns the first
\* entry of requested_formats that carries a url; if there is none, the info
\* dict itself when it carries a url; otherwise None, and then resolve answers
\* 500 resolve_failed.  While an entry of formats qualifies, the result is a
\* qualifying entry of formats and neither fallback.
C12_Fallbacks ==
    pf.pc \in {"done", "surfaced"} =>
        LET fs == pf.info.formats
            rf == pf.info.requested_formats
            k  == FirstUrlIndex(rf)
        IN  /\ QualifyingIn(fs) = {}
               => pf.chosen =
                    IF k # 0 THEN rf[k]
                    ELSE IF "url" \in DOMAIN pf.info /\ pf.info.url # << >>
                         THEN pf.info
                         ELSE << >>
            /\ QualifyingIn(fs) # {}
               => /\ \E i \in QualifyingIn(fs) : pf.chosen = fs[i]
                  /\ pf.chosen # pf.info
                  /\ \A m \in 1..Len(rf) : pf.chosen # rf[m]
            /\ pf.pc = "surfaced"
               => (pf.chosen = << >>
                   <=> pf.resp = [status |-> 500,
                                  body |-> [error |-> "resolve_failed",
                                            detail |-> "No hay formato progresivo compatible"]])

\* C12 happens: formats has entries and all are rejected, the first entry of
\* requested_formats has no url, the second has one and is returned although
\* the info dict has a url of its own
C12_Witness ==
    /\ pf.pc = "surfaced"
    /\ pf.info.formats # << >>
    /\ QualifyingIn(pf.info.formats) = {}
    /\ FirstUrlIndex(pf.info.requested_formats) = 2
    /\ "url" \in DOMAIN pf.info
    /\ pf.chosen = pf.info.requested_formats[2]
    /\ pf.resp.body.streamUrl = pf.info.requested_formats[2].url

-----------------------------------------------------------------------------
(* Properties of the request validation of resolve *)

\* the body has no url field, or its url has nothing but white space
BlankBody(data) ==
    \/ "url" \notin DOMAIN data
    \/ \A i \in 1..Len(data.url) : data.url[i] \in {" ", "\t", "\n"}

\* at index i of url stands one of the markers v=, be/ and shorts/, followed
\* at once by 11 characters that are letters, digits, underscores or hyphens
TokenAt(url, i) ==
    \E m \in { <<"v","=">>, <<"b","e","/">>, <<"s","h","o","r","t","s","/">> } :
        /\ i + Len(m) + 10 <= Len(url)
        /\ \A j \in 1..Len(m) : url[i + j - 1] = m[j]
        /\ \A j \in 0..10 :
              url[i + Len(m) + j] \in UpperChars \cup LowerChars \cup DigitChars \cup {"_", "-"}

HasToken(url) == \E i \in 1..Len(url) : TokenAt(url, i)

\* the 11 characters that follow the marker at index i of url
TokenIdsAt(url, i) ==
    { SubSeq(url, i + Len(m), i + Len(m) + 10) :
        m \in { x \in { <<"v","=">>, <<"b","e","/">>, <<"s","h","o","r","t","s","/">> } :
                   /\ i + Len(x) - 1 <= Len(url)
                   /\ \A j \in 1..Len(x) : url[i + j - 1] = x[j] } }

\* the bodies without a url, and those with a url that has no token
BlankBodies     == {data \in Bodies : BlankBody(data)}
TokenlessBodies == {data \in Bodies \ BlankBodies : ~HasToken(data.url)}

\* C13: a request whose body has no url field, or whose url is empty or all
\* white space, ends at once with 400 missing_url (not invalid_youtube_url:
\* the check comes before the identifier is parsed); it has looked nothing up
\* in the cache, left the cache as it was and not called the collaborator.
C13_MissingUrl ==
    [][\A w \in Workers : \A data \in BlankBodies :
         Receive(w, data)
         => /\ req'[w].pc = "done"
            /\ req'[w].resp = [status |-> 400, body |-> [error |-> "missing_url"]]
            /\ req'[w].vid = << >>
            /\ req'[w].hit = << >>
            /\ req'[w].calls = 0
            /\ CACHE' = CACHE]_vars

\* C13 happens: a request was answered 400 missing_url while the cache held
\* an entry
C13_Witness ==
    \E w \in Workers :
        /\ req[w].pc = "done"
        /\ req[w].resp = [status |-> 400, body |-> [error |-> "missing_url"]]
        /\ req[w].calls = 0
        /\ CACHE # << >>

\* C14: a request whose url is not blank and has no identifier token ends at
\* once with 400 invalid_youtube_url, with the cache unchanged and without a
\* call of the collaborator, also while the cache holds fresh entries of
\* other identifiers.
C14_InvalidUrl ==
    [][\A w \in Workers : \A data \in TokenlessBodies :
         Receive(w, data)
         => /\ req'[w].pc = "done"
            /\ req'[w].resp =
                 [status |-> 400, body |-> [error |-> "invalid_youtube_url"]]
            /\ req'[w].vid = << >>
            /\ req'[w].hit = << >>
            /\ req'[w].calls = 0
            /\ CACHE' = CACHE]_vars

\* C14 happens: a request was answered 400 invalid_youtube_url while the
\* cache held a fresh entry
C14_Witness ==
    \E w \in Workers :
        /\ req[w].pc = "done"
        /\ req[w].resp = [status |-> 400, body |-> [error |-> "invalid_youtube_url"]]
        /\ req[w].url # << >>
        /\ req[w].calls = 0
        /\ \E k \in DOMAIN CACHE : Over1800(CACHE, k, clock)

-----------------------------------------------------------------------------
(* Properties of the life of a request and of the cache *)

\* C15: extraction is never retried.  A request calls the collaborator at
\* most once; the step that makes the call either goes on to the cache write
\* or ends the request, and when the collaborator raised it ends the request
\* with 500 resolve_failed; the count of calls changes in no other step of
\* the request.
C15_NoRetry ==
    /\ [](\A w \in Workers : req[w].calls <= 1)
    /\ [][\A w \in Workers :
            /\ (req[w].pc = "extracting" /\ req'[w] # req[w])
               => /\ req[w].calls = 0 /\ req'[w].calls = 1
                  /\ req'[w].pc \in {"writing", "done"}
                  /\ (req'[w].pc = "done" /\ req'[w].r.stage = "extract")
                     => req'[w].resp =
                          [status |-> 500,
                           body |-> [error |-> "resolve_failed",
                                     detail |-> "ERROR: Video unavailable"]]
            /\ (req[w].pc # "extracting" /\ req'[w].pc # "idle")
               => req'[w].calls = req[w].calls]_vars

\* C15 happens: the collaborator raised on the one call of a request and the
\* request has ended with 500 resolve_failed
C15_Witness ==
    \E w \in Workers :
        /\ req[w].pc = "done"
        /\ req[w].calls = 1
        /\ req[w].r.stage = "extract"
        /\ req[w].resp.status = 500
        /\ req[w].resp.body.error = "resolve_failed"

\* C16: no step removes an identifier from the cache: the set of cached
\* identifiers never shrinks, whatever the requests do and however old the
\* entries are.
C16_NeverEvicted == [][DOMAIN CACHE \subseteq DOMAIN CACHE']_vars

\* C16 happens: an entry has expired, a later request for its identifier has
\* failed, and the entry is still in the cache
C16_Witness ==
    \E w \in Workers :
        /\ req[w].pc = "done"
        /\ req[w].resp.status = 500
        /\ req[w].vid \in DOMAIN CACHE
        /\ CACHE[req[w].vid].expiresAt <= clock

-----------------------------------------------------------------------------
(* Properties of extract_video_id *)

\* C17: for a URL in which a marker (v=, be/ or shorts/) is followed at once
\* by 11 word-or-hyphen characters, extract_video_id returns these 11
\* characters, those of the leftmost such place; for every other URL it
\* returns None; it leaves the cache and the rest of the state as they are.
C17_Identifier ==
    idx.pc = "done" =>
        /\ IF HasToken(idx.url)
           THEN \E i \in 1..Len(idx.url) :
                   /\ TokenAt(idx.url, i)
                   /\ \A j \in 1..(i - 1) : ~TokenAt(idx.url, j)
                   /\ idx.vid \in TokenIdsAt(idx.url, i)
                   /\ Len(idx.vid) = 11
           ELSE idx.vid = << >>
        /\ CACHE = << >> /\ clock = 0 /\ served = 0

\* C17 happens: the URL has two tokens with different identifiers, be/ first
\* and v= second, and the identifier after be/ is returned
C17_Witness ==
    /\ idx.pc = "done"
    /\ \E i, j \in 1..Len(idx.url) :
          /\ i < j
          /\ TokenAt(idx.url, i) /\ idx.url[i] = "b"
          /\ TokenAt(idx.url, j) /\ idx.url[j] = "v"
          /\ idx.vid \in TokenIdsAt(idx.url, i)
          /\ idx.vid \notin TokenIdsAt(idx.url, j)

\* the stages of a request as the variable req shows them: parsing and the
\* cache check are the step out of "idle"; extraction, selection and expiry
\* computation the step out of "extracting"; the cache write the step out of
\* "writing"; "done" holds the response, 200 for Done, 400 or 500 for Failed
StageStep(w) ==
    \/ /\ req[w].pc = "idle"
       /\ \/ req'[w].pc = "extracting"
          \/ req'[w].pc = "done" /\ req'[w].resp.status = 400
          \/ req'[w].pc = "done" /\ req'[w].resp.status = 200 /\ req'[w].calls = 0
    \/ /\ req[w].pc = "extracting"
       /\ \/ req'[w].pc = "writing" /\ req'[w].r.ok
          \/ req'[w].pc = "done" /\ req'[w].resp.status = 500 /\ ~req'[w].r.ok
    \/ /\ req[w].pc = "writing"
       /\ req'[w].pc = "done" /\ req'[w].resp.status = 200 /\ req'[w].calls = 1
    \/ /\ req[w].pc = "done"
       /\ req'[w].pc = "idle"

\* the cache is written by a request whose extraction, selection and expiry
\* computation have succeeded, with the stream and the expiry they gave
WriteAfterSuccess(w) ==
    /\ req[w].pc = "writing" /\ req'[w].pc = "done"
    /\ req[w].calls = 1
    /\ req[w].r.ok
    /\ req[w].r.stream_url # << >>
    /\ DOMAIN CACHE' = DOMAIN CACHE \cup {req[w].vid}
    /\ CACHE'[req[w].vid].streamUrl = req[w].r.stream_url
    /\ CACHE'[req[w].vid].expiresAt = req[w].r.expires_at
    /\ \A k \in DOMAIN CACHE \ {req[w].vid} : CACHE'[k] = CACHE[k]

\* C18: every request moves through the stages in the order of the state
\* machine (a fresh hit ends it after the cache check, a failure ends it
\* from whatever stage it is in), the cache is written only by a request
\* whose extraction, selection and expiry computation have all succeeded,
\* and every request that has entered extraction reaches its end, given that
\* the collaborator answers.
C18_RequestLife ==
    /\ [][\A w \in Workers : req'[w] # req[w] => StageStep(w)]_vars
    /\ [][CACHE' # CACHE => \E w \in Workers : WriteAfterSuccess(w)]_vars
    /\ \A w \in Workers :
          (req[w].pc \in {"extracting", "writing"}) ~> (req[w].pc = "done")

\* C18 happens: one request went through all stages and wrote the cache,
\* another failed in the expiry computation
C18_Witness ==
    \E w, v \in Workers :
        /\ req[w].pc = "done" /\ req[w].calls = 1
        /\ req[w].resp.status = 200
        /\ CACHE[req[w].vid] = req[w].resp.body
        /\ req[v].pc = "done" /\ req[v].calls = 1
        /\ req[v].resp.status = 500
        /\ req[v].r.stage = "expiry"

-----------------------------------------------------------------------------
(* Properties of the cache entries *)

\* the entry of k is new or changed in this step
Written(k) == k \notin DOMAIN CACHE \/ CACHE'[k] # CACHE[k]

\* C19: every entry of the cache stands under its own videoId and has
\* graceSeconds 1800; an entry appears or changes only in the step in which
\* a non-cached resolution for that identifier produces its 200 response,
\* and the entry is the payload of that response; a response served from the
\* cache carries the identifier that was asked for.
C19_EntriesAreResponses ==
    /\ [](\A k \in DOMAIN CACHE :
             CACHE[k].videoId = k /\ CACHE[k].graceSeconds = 1800)
    /\ [][\A k \in DOMAIN CACHE' :
            Written(k)
            => \E w \in Workers :
                  /\ Finishes(w)
                  /\ req'[w].vid = k
                  /\ req'[w].calls = 1
                  /\ req'[w].resp = [status |-> 200, body |-> CACHE'[k]]]_vars
    /\ [][\A w \in Workers :
            (Arrives(w) /\ req'[w].pc = "done" /\ req'[w].resp.status = 200)
            => /\ req'[w].resp.body.videoId = req'[w].vid
               /\ req'[w].resp.body = CACHE[req'[w].vid]]_vars

\* C19 happens: the cache holds the entries of two identifiers, each under
\* its own videoId, and the last response is the entry of its identifier
C19_Witness ==
    /\ Cardinality(DOMAIN CACHE) = 2
    /\ \A k \in DOMAIN CACHE : CACHE[k].videoId = k
    /\ \E w \in Workers :
          /\ req[w].pc = "done"
          /\ req[w].resp = [status |-> 200, body |-> CACHE[req[w].vid]]

=============================================================================
